---- MODULE Spec2Model ----
(***************************************************************************)
(* Model of the day-plan generator of food-planner (src/main.py).          *)
(*                                                                         *)
(* Nutrient values are whole numbers: every quantity the generator adds is *)
(* one standard portion (default_portions and step_portions return 1.0),   *)
(* so the two-decimal rounding of nutrients_for_portions and add_nutrients *)
(* is the identity on the catalogs considered here.  A catalog entry is    *)
(* identified by its position in the catalog (Python object identity).     *)
(* An unset lunch_role (None) is the string "None"; max_portions is the    *)
(* empty set when it is None and {m} when it is set to m.                  *)
(***************************************************************************)
EXTENDS Integers, Sequences, FiniteSets, TLC

VARIABLES
    items,      \* the catalog: sequence of Item records (lunch_role is mutable)
    goals,      \* the Goals value passed to generate_day_plan
    plan,       \* DayPlan.meals: slot -> sequence of Portion records
    pc,         \* position inside generate_day_plan, or "api" for a client of DayPlan
    err,        \* which ValueError ended the call ("none" if none)
    result,     \* <<the returned DayPlan>> once the call returned, else <<>>
    pair,       \* <<main_item, side_item>> once pick_lunch_pair returned, else <<>>
    i2,         \* iterations of the Stage 2 loop started so far
    i3,         \* iterations of the Stage 3 loop started so far
    added2,     \* portions added by Stage 2
    added3,     \* portions added by Stage 3
    roles0,     \* lunch_role of every entry when the current call started
    seeded,     \* TRUE when the run keeps the seed's stream to replay it
    stream,     \* the seed's stream of raw draws, as far as it has been used
    rpos,       \* number of draws the current call has consumed
    call,       \* number of the current generate_day_plan call
    prev,       \* outcome of the previous call with the same arguments
    last,       \* the last call a client made on the DayPlan API
    scored      \* the Goals a client scores the plan against, and the score

vars == <<items, goals, plan, pc, err, result, pair, i2, i3, added2,
          added3, roles0, seeded, stream, rpos, call, prev, last, scored>>

----------------------------------------------------------------------------
(* Bounds of the model *)

MaxCap == 2         \* largest max_portions value of a catalog entry
MaxQty == 2         \* largest quantity a client passes to Portion
MaxApiOps == 3      \* number of calls a client makes on one DayPlan
MaxCalls == 2       \* number of generate_day_plan calls with the same arguments
RawRange == 3       \* number of distinct raw values in the seed's stream

(* Program constants *)

CalMargin == 100    \* cal_limit = calories_target + 100.0
Stage2Max == 200    \* for _ in range(200)
Stage3Max == 80     \* for _ in range(80)
ProteinFloor == 5   \* (it.protein_per_portion or 0.0) > 5
FatWeight == 2      \* carbs - fat * 2.0

----------------------------------------------------------------------------
(* MealType and the catalog *)

BREAKFAST == "breakfast"
LUNCH == "lunch"
DINNER == "dinner"
MealType == {BREAKFAST, LUNCH, DINNER}

Roles == {"None", "MAIN", "SIDE"}
NoCap == {}
Caps == {NoCap} \cup {{m} : m \in 1..MaxCap}

Item(cal, protein, carbs, fat, mts, maxp, role) ==
    [calories_per_portion |-> cal, protein_per_portion |-> protein,
     carbs_per_portion |-> carbs, fat_per_portion |-> fat,
     meal_types |-> mts, max_portions |-> maxp, lunch_role |-> role]

step_portions(it) == 1

default_portions(it) == 1

\* an optional Goals field that is None is the empty set, else {value}
Unset == {}

\* Goals(calories_target, protein_min, fat_max, carbs_min)
GoalsFull(target, pmin, fmax, cmin) ==
    [calories_target |-> target, protein_min |-> pmin,
     fat_max |-> fmax, carbs_min |-> cmin]

\* Goals(calories_target, protein_min): fat_max and carbs_min default to None
Goals(target, pmin) == GoalsFull(target, pmin, Unset, Unset)

\* Goals.__init__ converts its arguments and raises on none of them
GoalsRejected(g) == FALSE

\* Portion.__init__ without the max_portions check
PortionRejected_NoCap(its, it, sp) == sp <= 0

\* Portion.__init__: the ValueError conditions
PortionRejected(its, it, sp) ==
    \/ sp <= 0
    \/ \E maxp \in its[it].max_portions : sp > maxp

Portion(it, sp) == [item |-> it, portions |-> sp]

EmptyPlan == [mt \in MealType |-> <<>>]

----------------------------------------------------------------------------
(* Nutrient sums *)

\* Meal.nutrients()[field]: the sum over the portions of ps, by halves
SumSeq(its, ps, field) ==
    LET S[r \in Nat \X Nat] ==
            IF r[1] > r[2] THEN 0
            ELSE IF r[1] = r[2]
            THEN its[ps[r[1]].item][field] * ps[r[1]].portions
            ELSE S[<<r[1], (r[1] + r[2]) \div 2>>]
                 + S[<<(r[1] + r[2]) \div 2 + 1, r[2]>>]
    IN S[<<1, Len(ps)>>]

\* DayPlan.nutrients()[field]
Nutrient(its, p, field) ==
    SumSeq(its, p[BREAKFAST], field) + SumSeq(its, p[LUNCH], field)
    + SumSeq(its, p[DINNER], field)

Calories(its, p) == Nutrient(its, p, "calories_per_portion")
Protein(its, p) == Nutrient(its, p, "protein_per_portion")

\* the portions of entry it among the portions of ps, summed by halves
QtySeq(ps, it) ==
    LET S[r \in Nat \X Nat] ==
            IF r[1] > r[2] THEN 0
            ELSE IF r[1] = r[2]
            THEN (IF ps[r[1]].item = it THEN ps[r[1]].portions ELSE 0)
            ELSE S[<<r[1], (r[1] + r[2]) \div 2>>]
                 + S[<<(r[1] + r[2]) \div 2 + 1, r[2]>>]
    IN S[<<1, Len(ps)>>]

\* the running daily total of one entry over the three meals
ItemTotal(p, it) ==
    QtySeq(p[BREAKFAST], it) + QtySeq(p[LUNCH], it) + QtySeq(p[DINNER], it)

----------------------------------------------------------------------------
(* Meal.add and DayPlan.add: the result is the new meals and the error *)

\* Meal.add without the eligibility check
Meal_add_NoCheck(its, p, mt, portion) ==
    [plan |-> [p EXCEPT ![mt] = Append(@, portion)], err |-> "none"]

\* Meal.add that merges the portion into the last portion of the meal when
\* that is of the same entry
Meal_add_Merge(its, p, mt, portion) ==
    IF mt \notin its[portion.item].meal_types
    THEN [plan |-> p, err |-> "Eligibility"]
    ELSE IF p[mt] # <<>> /\ p[mt][Len(p[mt])].item = portion.item
    THEN [plan |-> [p EXCEPT ![mt][Len(p[mt])].portions = @ + portion.portions],
          err |-> "none"]
    ELSE [plan |-> [p EXCEPT ![mt] = Append(@, portion)], err |-> "none"]

\* Meal.add that replaces the portions of the meal by the new portion
Meal_add_Replace(its, p, mt, portion) ==
    IF mt \notin its[portion.item].meal_types
    THEN [plan |-> p, err |-> "Eligibility"]
    ELSE [plan |-> [p EXCEPT ![mt] = <<portion>>], err |-> "none"]

Meal_add(its, p, mt, portion) ==
    IF mt \notin its[portion.item].meal_types
    THEN [plan |-> p, err |-> "Eligibility"]
    ELSE [plan |-> [p EXCEPT ![mt] = Append(@, portion)], err |-> "none"]

\* DayPlan.add without the max_portions gate
DayPlan_add_NoCap(its, p, mt, portion) ==
    IF mt \notin its[portion.item].meal_types
    THEN [plan |-> p, err |-> "Eligibility"]
    ELSE [plan |-> [p EXCEPT ![mt] = Append(@, portion)], err |-> "none"]

\* DayPlan.add comparing the running total alone, without the new portion
DayPlan_add_Stale(its, p, mt, portion) ==
    IF \E maxp \in its[portion.item].max_portions :
           ItemTotal(p, portion.item) > maxp
    THEN [plan |-> p, err |-> "Capacity"]
    ELSE IF mt \notin its[portion.item].meal_types
    THEN [plan |-> p, err |-> "Eligibility"]
    ELSE [plan |-> [p EXCEPT ![mt] = Append(@, portion)], err |-> "none"]

DayPlan_add(its, p, mt, portion) ==
    IF \E maxp \in its[portion.item].max_portions :
           ItemTotal(p, portion.item) + portion.portions > maxp
    THEN [plan |-> p, err |-> "Capacity"]
    ELSE Meal_add(its, p, mt, portion)

\* plan.add(mt, Portion(it, sp)): the constructor runs first
AddPortion(its, p, mt, it, sp) ==
    IF PortionRejected(its, it, sp)
    THEN [plan |-> p, err |-> "InvalidPortion"]
    ELSE DayPlan_add(its, p, mt, Portion(it, sp))

----------------------------------------------------------------------------
(* Pools *)

Indices(its) == [i \in 1..Len(its) |-> i]

\* items_for_meal ignoring the slot
items_for_meal_All(its, mt) == Indices(its)

items_for_meal(its, mt) ==
    SelectSeq(Indices(its), LAMBDA i : mt \in its[i].meal_types)

Without(seq, x) == SelectSeq(seq, LAMBDA i : i # x)

InSeq(x, seq) == \E k \in 1..Len(seq) : seq[k] = x

\* rng.choice(seq) on the raw draw r
choice(seq, r) == seq[(r % Len(seq)) + 1]

\* the role written onto every entry that has none, not onto x alone
OrRole_AllUnset(its, x, role) ==
    [i \in 1..Len(its) |->
        IF its[i].lunch_role = "None" THEN [its[i] EXCEPT !.lunch_role = role]
        ELSE its[i]]

\* x.lunch_role = x.lunch_role or role
OrRole(its, x, role) ==
    IF its[x].lunch_role = "None"
    THEN [its EXCEPT ![x].lunch_role = role]
    ELSE its

SetRole(its, x, role) == [its EXCEPT ![x].lunch_role = role]

----------------------------------------------------------------------------
(* pick_lunch_pair(rng, pool) on the raw draws r1, r2.  The result holds   *)
(* the pair, the catalog with the roles it wrote, and ns, the lengths of   *)
(* the lists the call drew from, in the order of the draws.                *)

\* rng.sample(unique_pool, 2): result[i] = pool[j]; pool[j] = pool[n-i-1]
sample2(seq, r1, r2) ==
    LET n == Len(seq)
        j1 == (r1 % n) + 1
        rest == [seq EXCEPT ![j1] = seq[n]]
        j2 == (r2 % (n - 1)) + 1
    IN <<seq[j1], rest[j2]>>

PickResult(m, s, its, ns) == [main |-> m, side |-> s, items |-> its, ns |-> ns]

\* Case D taking the first drawn as main only when it has more calories
PickUnassigned_Strict(its, pool, used, r1, r2) ==
    IF Len(pool) >= 2
    THEN LET ab == sample2(pool, r1, r2)
             a == ab[1]
             b == ab[2]
             ns == used \o <<Len(pool), Len(pool) - 1>>
         IN IF its[a].calories_per_portion > its[b].calories_per_portion
            THEN PickResult(a, b, OrRole(OrRole(its, a, "MAIN"), b, "SIDE"), ns)
            ELSE PickResult(b, a, OrRole(OrRole(its, a, "SIDE"), b, "MAIN"), ns)
    ELSE LET single == pool[1]
         IN PickResult(single, single, OrRole(its, single, "MAIN"), used)

\* Case D and Case E, reached directly or by falling through Case B or C
\* after used draws
PickUnassigned(its, pool, used, r1, r2) ==
    IF Len(pool) >= 2
    THEN LET ab == sample2(pool, r1, r2)
             a == ab[1]
             b == ab[2]
             ns == used \o <<Len(pool), Len(pool) - 1>>
         IN IF its[a].calories_per_portion >= its[b].calories_per_portion
            THEN PickResult(a, b, OrRole(OrRole(its, a, "MAIN"), b, "SIDE"), ns)
            ELSE PickResult(b, a, OrRole(OrRole(its, a, "SIDE"), b, "MAIN"), ns)
    ELSE LET single == pool[1]
         IN PickResult(single, single, OrRole(its, single, "MAIN"), used)

\* pair selection that ignores the roles the entries have
pick_lunch_pair_ByCalories(its, pool, r1, r2) ==
    PickUnassigned(its, pool, <<>>, r1, r2)

pick_lunch_pair(its, pool, r1, r2) ==
    LET mains == SelectSeq(pool, LAMBDA i : its[i].lunch_role = "MAIN")
        sides == SelectSeq(pool, LAMBDA i : its[i].lunch_role = "SIDE")
    IN
    IF mains # <<>> /\ sides # <<>>
    THEN \* Case A
         LET main == choice(mains, r1)
             side_candidates == Without(sides, main)
             from == IF side_candidates # <<>> THEN side_candidates ELSE sides
             side == choice(from, r2)
         IN PickResult(main, side,
                       OrRole(OrRole(its, main, "MAIN"), side, "SIDE"),
                       <<Len(mains), Len(from)>>)
    ELSE IF mains # <<>>
    THEN \* Case B
         LET main == choice(mains, r1)
             non_main_candidates == Without(pool, main)
         IN IF non_main_candidates # <<>>
            THEN LET side == choice(non_main_candidates, r2)
                 IN PickResult(main, side,
                               OrRole(OrRole(its, main, "MAIN"), side, "SIDE"),
                               <<Len(mains), Len(non_main_candidates)>>)
            ELSE IF Len(mains) >= 2
            THEN LET other == choice(Without(mains, main), r2)
                 IN PickResult(main, other,
                               SetRole(OrRole(its, main, "MAIN"), other, "SIDE"),
                               <<Len(mains), Len(Without(mains, main))>>)
            ELSE PickUnassigned(its, pool, <<Len(mains)>>, r2, 0)
    ELSE IF sides # <<>>
    THEN \* Case C
         LET side == choice(sides, r1)
             non_side_candidates == Without(pool, side)
         IN IF non_side_candidates # <<>>
            THEN LET main == choice(non_side_candidates, r2)
                 IN PickResult(main, side,
                               OrRole(OrRole(its, main, "MAIN"), side, "SIDE"),
                               <<Len(sides), Len(non_side_candidates)>>)
            ELSE IF Len(sides) >= 2
            THEN LET other == choice(Without(sides, side), r2)
                 IN PickResult(other, side,
                               OrRole(SetRole(its, other, "MAIN"), side, "SIDE"),
                               <<Len(sides), Len(Without(sides, side))>>)
            ELSE PickUnassigned(its, pool, <<Len(sides)>>, r2, 0)
    ELSE \* Case D, Case E
         PickUnassigned(its, pool, <<>>, r1, r2)

----------------------------------------------------------------------------
(* The seed's stream.  random.Random(seed) fixes a stream of raw values;   *)
(* the k-th draw of a call takes the k-th value.  A run that makes one     *)
(* call only never replays the stream, so there a draw is any index of the *)
(* list it draws from.                                                     *)

\* raw values the k-th draw from now can take, for a list of length n
RawValues(k, n) ==
    IF ~seeded THEN 0..(n - 1)
    ELSE IF rpos + k <= Len(stream) THEN {stream[rpos + k]}
    ELSE 0..(RawRange - 1)

\* the stream after the current call consumed the draws rs
Consumed(rs) ==
    IF seeded /\ rpos + Len(rs) > Len(stream)
    THEN SubSeq(stream, 1, rpos) \o rs
    ELSE stream

RolesOf(its) == [i \in 1..Len(its) |-> its[i].lunch_role]

----------------------------------------------------------------------------
(* Inputs *)

\* breakfast and dinner entries
A(maxp) == Item(300, 30, 20, 10, {BREAKFAST, DINNER}, maxp, "None")
Bk == Item(200, 4, 45, 1, {BREAKFAST}, NoCap, "None")
Dn(maxp) == Item(250, 20, 10, 12, {DINNER}, maxp, "None")
\* a dinner entry without calories: Item.__init__ accepts any calories value
W == Item(0, 9, 5, 0, {DINNER}, NoCap, "None")
\* an entry for every slot
Z(maxp, role) == Item(200, 8, 30, 2, MealType, maxp, role)
\* lunch entries
L1(maxp, role) == Item(400, 10, 50, 15, {LUNCH}, maxp, role)
L2(role) == Item(150, 5, 30, 0, {LUNCH}, NoCap, role)
L3(role) == Item(400, 12, 10, 20, {LUNCH}, NoCap, role)

OtherParts ==
    {<<>>, <<Bk>>} \cup {<<A(c)>> : c \in Caps}
    \cup {<<Bk, Dn(c)>> : c \in Caps}
    \cup {<<Z(c, "None")>> : c \in Caps}
    \cup {<<Bk, Dn(c), W>> : c \in Caps}

LunchParts ==
    {<<>>}
    \cup {<<L1(c, r1)>> : c \in Caps, r1 \in Roles}
    \cup {<<L1(c, r1), L2(r2)>> : c \in Caps, r1 \in Roles, r2 \in Roles}
    \cup {<<L1(c, r1), L2(r2), L3(r3)>> :
              c \in Caps, r1 \in Roles, r2 \in Roles, r3 \in Roles}

\* the catalog and goals of the scenario of section 8 of the specification
ScenarioCatalog ==
    << Item(300, 30, 0, 0, {BREAKFAST, DINNER}, NoCap, "None"),
       Item(400, 10, 0, 0, {LUNCH}, NoCap, "MAIN"),
       Item(150, 5, 0, 0, {LUNCH}, NoCap, "SIDE") >>
ScenarioGoals == Goals(1200, 60)

\* one tiny entry for every slot: both repair loops run out of iterations
TinyCatalog == << Item(1, 6, 1, 0, MealType, NoCap, "None") >>
TinyGoals == Goals(1000, 5000)

\* two entries of equal protein per calorie in the breakfast and dinner pools
TieCatalogs ==
    {<<A(NoCap), A(c), L1(NoCap, "None"), L3("None")>> : c \in Caps}

Catalogs ==
    ({o \o l : o \in OtherParts, l \in LunchParts} \ {<<>>}) \cup TieCatalogs

GoalSet == {ScenarioGoals, Goals(1200, 200), Goals(2000, 120), Goals(400, 60)}

\* Goals values with a negative field
NegativeGoals ==
    {Goals(-100, 60), Goals(1200, -10),
     GoalsFull(1200, 60, {-5}, Unset), GoalsFull(1200, 60, Unset, {-5})}

\* inputs on which the entry Stage 3 prefers is the one of most calories
OvershootInputs ==
    {<<A(NoCap), L1(NoCap, r)>> : r \in Roles} \X {Goals(2000, 60)}

Inputs ==
    (Catalogs \X GoalSet)
    \cup OvershootInputs
    \cup {<<ScenarioCatalog, ScenarioGoals>>, <<TinyCatalog, TinyGoals>>}
    \cup ({ScenarioCatalog} \X NegativeGoals)

\* inputs of the runs that call twice with the same seed
SeededInputs ==
    ({<<A(NoCap)>> \o l : l \in LunchParts} \X {ScenarioGoals, Goals(2000, 120)})
    \cup {<<ScenarioCatalog, ScenarioGoals>>}

\* catalogs of the runs of a client of the DayPlan API
ApiCatalogs == {<<A(c1), L1(c2, "None")>> : c1 \in Caps, c2 \in Caps}

NoCall == [op |-> "none", mt |-> BREAKFAST, item |-> 1, portions |-> 1,
           err |-> "none", n |-> 0]
NoOutcome == [pc |-> "none", err |-> "none", plan |-> EmptyPlan]

\* no score has been asked for
NoScore == [goals |-> <<>>, score |-> <<>>]

InitCommon ==
    /\ plan = EmptyPlan
    /\ err = "none"
    /\ result = <<>>
    /\ pair = <<>>
    /\ i2 = 0 /\ i3 = 0 /\ added2 = 0 /\ added3 = 0
    /\ roles0 = RolesOf(items)
    /\ stream = <<>>
    /\ rpos = 0
    /\ call = 1
    /\ prev = NoOutcome
    /\ last = NoCall
    /\ scored = NoScore

InitGen ==
    /\ \E in \in Inputs :
           /\ ~GoalsRejected(in[2])
           /\ items = in[1]
           /\ goals = in[2]
    /\ pc = "base_breakfast"
    /\ seeded = FALSE
    /\ InitCommon

InitApi ==
    /\ items \in ApiCatalogs
    /\ goals = ScenarioGoals
    /\ pc = "api"
    /\ seeded = FALSE
    /\ InitCommon

Init == InitGen \/ InitApi

InitSeeded ==
    /\ \E in \in SeededInputs :
           /\ ~GoalsRejected(in[2])
           /\ items = in[1]
           /\ goals = in[2]
    /\ pc = "base_breakfast"
    /\ seeded = TRUE
    /\ InitCommon

----------------------------------------------------------------------------
(* generate_day_plan: Stage 1, the base fill *)

\* a calorie limit of target + 1000
cal_limit_Wide == goals.calories_target + 1000

cal_limit == goals.calories_target + CalMargin

\* the call ends with a ValueError
Raise(e) ==
    /\ pc' = "error"
    /\ err' = e

\* one pass of the base fill that goes on without the portion when plan.add
\* rejects it
BaseFill_Drop(mt, here, next) ==
    /\ pc = here
    /\ LET pool == items_for_meal(items, mt)
       IN IF pool = <<>>
          THEN /\ Raise("NoItems")
               /\ UNCHANGED <<plan, stream, rpos>>
          ELSE \E r \in RawValues(1, Len(pool)) :
                 LET it == choice(pool, r)
                     res == AddPortion(items, plan, mt, it, default_portions(it))
                 IN /\ plan' = res.plan
                    /\ err' = "none"
                    /\ pc' = next
                    /\ stream' = Consumed(<<r>>)
                    /\ rpos' = rpos + 1
    /\ UNCHANGED <<items, goals, result, pair, i2, i3, added2, added3, roles0,
                   seeded, call, prev, last, scored>>

\* one pass of "for mt in [BREAKFAST, DINNER]"
BaseFill(mt, here, next) ==
    /\ pc = here
    /\ LET pool == items_for_meal(items, mt)
       IN IF pool = <<>>
          THEN /\ Raise("NoItems")
               /\ UNCHANGED <<plan, stream, rpos>>
          ELSE \E r \in RawValues(1, Len(pool)) :
                 LET it == choice(pool, r)
                     res == AddPortion(items, plan, mt, it, default_portions(it))
                 IN /\ plan' = res.plan
                    /\ err' = res.err
                    /\ pc' = IF res.err = "none" THEN next ELSE "error"
                    /\ stream' = Consumed(<<r>>)
                    /\ rpos' = rpos + 1
    /\ UNCHANGED <<items, goals, result, pair, i2, i3, added2, added3, roles0,
                   seeded, call, prev, last, scored>>

BaseBreakfast == BaseFill(BREAKFAST, "base_breakfast", "base_dinner")

BaseDinner == BaseFill(DINNER, "base_dinner", "base_lunch")

\* largest raw value a draw is tried with
RawTop == IF seeded THEN RawRange - 1 ELSE Len(items)

\* the draws rs are those of a call that drew from lists of lengths ns
DrawsFit(rs, ns) ==
    \A k \in 1..Len(rs) :
        IF k <= Len(ns) THEN rs[k] \in RawValues(k, ns[k]) ELSE rs[k] = 0

\* lunch_pool, the emptiness check and pick_lunch_pair
PickLunch ==
    /\ pc = "base_lunch"
    /\ LET lunch_pool == items_for_meal(items, LUNCH)
       IN IF lunch_pool = <<>>
          THEN /\ Raise("NoItems")
               /\ UNCHANGED <<items, pair, stream, rpos>>
          ELSE \E r1 \in 0..RawTop, r2 \in 0..RawTop :
                 LET out == pick_lunch_pair(items, lunch_pool, r1, r2)
                     rs == SubSeq(<<r1, r2>>, 1, Len(out.ns))
                 IN /\ DrawsFit(<<r1, r2>>, out.ns)
                    /\ items' = out.items
                    /\ pair' = <<out.main, out.side>>
                    /\ stream' = Consumed(rs)
                    /\ rpos' = rpos + Len(rs)
                    /\ pc' = "lunch_main"
                    /\ err' = "none"
    /\ UNCHANGED <<goals, plan, result, i2, i3, added2, added3, roles0,
                   seeded, call, prev, last, scored>>

\* the second lunch portion dropped when main and side are the same entry
AddLunch_Dedup(k, here, next) ==
    /\ pc = here
    /\ LET res == IF k = 2 /\ pair[1] = pair[2]
                  THEN [plan |-> plan, err |-> "none"]
                  ELSE AddPortion(items, plan, LUNCH, pair[k],
                                  default_portions(pair[k]))
       IN /\ plan' = res.plan
          /\ err' = res.err
          /\ pc' = IF res.err = "none" THEN next ELSE "error"
    /\ UNCHANGED <<items, goals, result, pair, i2, i3, added2, added3, roles0,
                   seeded, stream, rpos, call, prev, last, scored>>

\* plan.add(LUNCH, Portion(main_item or side_item, default_portions))
AddLunch(k, here, next) ==
    /\ pc = here
    /\ LET res == AddPortion(items, plan, LUNCH, pair[k], default_portions(pair[k]))
       IN /\ plan' = res.plan
          /\ err' = res.err
          /\ pc' = IF res.err = "none" THEN next ELSE "error"
    /\ UNCHANGED <<items, goals, result, pair, i2, i3, added2, added3, roles0,
                   seeded, stream, rpos, call, prev, last, scored>>

AddLunchMain == AddLunch(1, "lunch_main", "lunch_side")

AddLunchSide == AddLunch(2, "lunch_side", "stage2")

----------------------------------------------------------------------------
(* Stage 2, protein repair *)

\* "for _ in range(n)" has no iteration left after i iterations
RangeDone_OffByOne(i, n) == i > n

RangeDone(i, n) == i >= n

\* the max_portions filter of the repair stages left out
CapExhausted_Never(its, p, it) == FALSE

\* one more step of the entry would exceed its max_portions
CapExhausted(its, p, it) ==
    \E maxp \in its[it].max_portions : ItemTotal(p, it) + step_portions(it) > maxp

\* add_best_item without the calorie-limit check
RECURSIVE BestLoop_NoCeiling(_, _, _, _, _)
BestLoop_NoCeiling(its, p, candidates, limit, sofar) ==
    IF candidates = <<>> THEN sofar
    ELSE LET it == Head(candidates)
             step == step_portions(it)
             added_cal == its[it].calories_per_portion * step
             added_protein == its[it].protein_per_portion * step
             skip == \/ CapExhausted(its, p, it)
                     \/ added_cal <= 0
             better == added_protein * sofar.den > sofar.num * added_cal
         IN BestLoop_NoCeiling(its, p, Tail(candidates), limit,
                     IF ~skip /\ better
                     THEN [best |-> <<it>>, num |-> added_protein, den |-> added_cal]
                     ELSE sofar)

\* the loop of add_best_item over candidates; sofar holds best (<<>> for None)
\* and best_score as the fraction num / den
RECURSIVE BestLoop(_, _, _, _, _)
BestLoop(its, p, candidates, limit, sofar) ==
    IF candidates = <<>> THEN sofar
    ELSE LET it == Head(candidates)
             step == step_portions(it)
             added_cal == its[it].calories_per_portion * step
             added_protein == its[it].protein_per_portion * step
             skip == \/ CapExhausted(its, p, it)
                     \/ added_cal <= 0
                     \/ Calories(its, p) + added_cal > limit
             better == added_protein * sofar.den > sofar.num * added_cal
         IN BestLoop(its, p, Tail(candidates), limit,
                     IF ~skip /\ better
                     THEN [best |-> <<it>>, num |-> added_protein, den |-> added_cal]
                     ELSE sofar)

\* best of add_best_item: <<>> when it returns False, else <<the entry added>>
BestItem(its, p, candidates, limit) ==
    BestLoop(its, p, candidates, limit, [best |-> <<>>, num |-> -1, den |-> 1]).best

\* lunch entries already present in the lunch meal
Existing(p) == [k \in 1..Len(p[LUNCH]) |-> p[LUNCH][k].item]

\* the pool of items_for_meal without the restriction for lunch
RepairPool_AnyLunch(its, p, mt) == items_for_meal(its, mt)

\* the pool of items_for_meal, for lunch restricted to the entries present
RepairPool(its, p, mt) ==
    IF mt = LUNCH
    THEN SelectSeq(items_for_meal(its, mt), LAMBDA it : InSeq(it, Existing(p)))
    ELSE items_for_meal(its, mt)

\* the candidates Stage 2 passes to add_best_item for slot mt
ProteinPool(its, p, mt) ==
    SelectSeq(RepairPool(its, p, mt),
              LAMBDA it : its[it].protein_per_portion > ProteinFloor)

\* the slot order of the other lineage of the generator
Stage2Order_LunchFirst == <<LUNCH, DINNER, BREAKFAST>>

Stage2Order == <<DINNER, BREAKFAST, LUNCH>>

\* the slot at position k tried alone, without going on to the next slots
FirstAddition_OneSlot(its, p, limit, k) ==
    LET best == BestItem(its, p, ProteinPool(its, p, Stage2Order[k]), limit)
    IN IF best # <<>> THEN <<Stage2Order[k], best[1]>> ELSE <<>>

\* the first slot of Stage2Order, from position k on, where add_best_item
\* finds an entry: <<>> when there is none, else <<slot, entry>>
RECURSIVE FirstAddition(_, _, _, _)
FirstAddition(its, p, limit, k) ==
    IF k > Len(Stage2Order) THEN <<>>
    ELSE LET mt == Stage2Order[k]
             best == BestItem(its, p, ProteinPool(its, p, mt), limit)
         IN IF best # <<>> THEN <<mt, best[1]>>
            ELSE FirstAddition(its, p, limit, k + 1)

\* one iteration of "for _ in range(200)", or the end of the range: where
\* the call goes on, the plan, the error and the two counters
Stage2Outcome ==
    LET leave(n) == [pc |-> "stage3", plan |-> plan, err |-> err, i2 |-> n,
                     added2 |-> added2]
    IN IF RangeDone(i2, Stage2Max) THEN leave(i2)
       ELSE IF \/ Protein(items, plan) >= goals.protein_min
               \/ Calories(items, plan) > cal_limit
       THEN leave(i2 + 1)
       ELSE LET add == FirstAddition(items, plan, cal_limit, 1)
            IN IF add = <<>> THEN leave(i2 + 1)
               ELSE LET res == AddPortion(items, plan, add[1], add[2],
                                          step_portions(add[2]))
                    IN IF res.err = "none"
                       THEN [pc |-> "stage2", plan |-> res.plan, err |-> "none",
                             i2 |-> i2 + 1, added2 |-> added2 + 1]
                       ELSE [pc |-> "error", plan |-> res.plan, err |-> res.err,
                             i2 |-> i2 + 1, added2 |-> added2]

Stage2Iter ==
    /\ pc = "stage2"
    /\ \E out \in {Stage2Outcome} :
           /\ pc' = out.pc
           /\ plan' = out.plan
           /\ err' = out.err
           /\ i2' = out.i2
           /\ added2' = out.added2
    /\ UNCHANGED <<items, goals, result, pair, i3, added3, roles0, seeded,
                   stream, rpos, call, prev, last, scored>>

----------------------------------------------------------------------------
(* Stage 3, calorie repair *)

Stage3Order == <<BREAKFAST, DINNER, LUNCH>>

\* the (slot, entry) pairs of slot mt whose cap is not exhausted
SlotCandidates(its, p, mt) ==
    LET pool == SelectSeq(RepairPool(its, p, mt),
                          LAMBDA it : ~CapExhausted(its, p, it))
    IN [k \in 1..Len(pool) |-> <<mt, pool[k]>>]

all_candidates(its, p) ==
    SlotCandidates(its, p, Stage3Order[1]) \o SlotCandidates(its, p, Stage3Order[2])
    \o SlotCandidates(its, p, Stage3Order[3])

\* the Stage 3 score without the fat term
CarbScore_CarbsOnly(its, it) == its[it].carbs_per_portion

\* carbs_per_portion_val(it) - fat_per_portion_val(it) * 2.0
CarbScore(its, it) ==
    its[it].carbs_per_portion - its[it].fat_per_portion * FatWeight

\* the loop over all_candidates[1:], keeping the first maximum
RECURSIVE BestCarb(_, _, _)
BestCarb(its, cands, best) ==
    IF cands = <<>> THEN best
    ELSE BestCarb(its, Tail(cands),
                  IF CarbScore(its, Head(cands)[2]) > CarbScore(its, best[2])
                  THEN Head(cands) ELSE best)

Abs(x) == IF x < 0 THEN -x ELSE x

\* an iteration of Stage 3 without the stop within 100 of the target
Stage3Outcome_NoNearStop ==
    LET leave(n) == [pc |-> "return", plan |-> plan, err |-> err, i3 |-> n,
                     added3 |-> added3]
        cal == Calories(items, plan)
        cands == all_candidates(items, plan)
    IN IF RangeDone(i3, Stage3Max) THEN leave(i3)
       ELSE IF \/ cal > goals.calories_target + CalMargin
               \/ cands = <<>>
       THEN leave(i3 + 1)
       ELSE LET best == BestCarb(items, Tail(cands), Head(cands))
                best_mt == best[1]
                best_it == best[2]
                added_cal == items[best_it].calories_per_portion
                             * step_portions(best_it)
            IN IF cal + added_cal <= cal_limit
               THEN LET res == AddPortion(items, plan, best_mt, best_it,
                                          step_portions(best_it))
                    IN IF res.err = "none"
                       THEN [pc |-> "stage3", plan |-> res.plan, err |-> "none",
                             i3 |-> i3 + 1, added3 |-> added3 + 1]
                       ELSE [pc |-> "error", plan |-> res.plan, err |-> res.err,
                             i3 |-> i3 + 1, added3 |-> added3]
               ELSE leave(i3 + 1)

\* one iteration of "for _ in range(80)", or the end of the range: where
\* the call goes on, the plan, the error and the two counters
Stage3Outcome ==
    LET leave(n) == [pc |-> "return", plan |-> plan, err |-> err, i3 |-> n,
                     added3 |-> added3]
        cal == Calories(items, plan)
        cands == all_candidates(items, plan)
    IN IF RangeDone(i3, Stage3Max) THEN leave(i3)
       ELSE IF \/ Abs(cal - goals.calories_target) <= CalMargin
               \/ cal > goals.calories_target + CalMargin
               \/ cands = <<>>
       THEN leave(i3 + 1)
       ELSE LET best == BestCarb(items, Tail(cands), Head(cands))
                best_mt == best[1]
                best_it == best[2]
                added_cal == items[best_it].calories_per_portion
                             * step_portions(best_it)
            IN IF cal + added_cal <= cal_limit
               THEN LET res == AddPortion(items, plan, best_mt, best_it,
                                          step_portions(best_it))
                    IN IF res.err = "none"
                       THEN [pc |-> "stage3", plan |-> res.plan, err |-> "none",
                             i3 |-> i3 + 1, added3 |-> added3 + 1]
                       ELSE [pc |-> "error", plan |-> res.plan, err |-> res.err,
                             i3 |-> i3 + 1, added3 |-> added3]
               ELSE leave(i3 + 1)

Stage3Iter ==
    /\ pc = "stage3"
    /\ \E out \in {Stage3Outcome} :
           /\ pc' = out.pc
           /\ plan' = out.plan
           /\ err' = out.err
           /\ i3' = out.i3
           /\ added3' = out.added3
    /\ UNCHANGED <<items, goals, result, pair, i2, added2, roles0, seeded,
                   stream, rpos, call, prev, last, scored>>

\* return plan
Return ==
    /\ pc = "return"
    /\ pc' = "done"
    /\ result' = <<plan>>
    /\ UNCHANGED <<items, goals, plan, err, pair, i2, i3, added2, added3, roles0,
                   seeded, stream, rpos, call, prev, last, scored>>

Ended == pc \in {"done", "error"}

----------------------------------------------------------------------------
(* DayPlan.score.  Goals fields and the score are in hundredths, so that   *)
(* the rounding to two decimals acts; the unrounded sum is in units of     *)
(* 1/20000 (the carbs weight is 1.5).                                       *)

\* a whole number of units, in hundredths
Hundredths(x) == 100 * x

\* round(x, 2) of a non-negative x given in units of 1/20000: the nearest
\* hundredth, the even one of two equally near
round2(x) ==
    LET q == x \div 200
        r == x % 200
    IN IF r < 100 THEN q
       ELSE IF r > 100 THEN q + 1
       ELSE IF q % 2 = 0 THEN q ELSE q + 1

\* a - b when the optional bound b is set and a > b, else 0
Excess(a, bound) ==
    IF \E b \in bound : a > b THEN a - (CHOOSE b \in bound : TRUE) ELSE 0

\* b - a when the optional bound b is set and a < b, else 0
Shortfall(a, bound) ==
    IF \E b \in bound : a < b THEN (CHOOSE b \in bound : TRUE) - a ELSE 0

\* DayPlan.score with the protein penalty not squared
score_LinearProtein(its, p, g) ==
    LET cal == Hundredths(Calories(its, p))
        protein == Hundredths(Protein(its, p))
        fat == Hundredths(Nutrient(its, p, "fat_per_portion"))
        carbs == Hundredths(Nutrient(its, p, "carbs_per_portion"))
        dp == Shortfall(protein, {g.protein_min})
        df == Excess(fat, g.fat_max)
        dc == Shortfall(carbs, g.carbs_min)
    IN round2(200 * Abs(g.calories_target - cal)
              + 600 * dp + 4 * df * df + 3 * dc * dc)

\* DayPlan.score(goals), in hundredths
score(its, p, g) ==
    LET cal == Hundredths(Calories(its, p))
        protein == Hundredths(Protein(its, p))
        fat == Hundredths(Nutrient(its, p, "fat_per_portion"))
        carbs == Hundredths(Nutrient(its, p, "carbs_per_portion"))
        dp == Shortfall(protein, {g.protein_min})
        df == Excess(fat, g.fat_max)
        dc == Shortfall(carbs, g.carbs_min)
    IN round2(200 * Abs(g.calories_target - cal)
              + 6 * dp * dp + 4 * df * df + 3 * dc * dc)

\* the plans and the Goals (in hundredths) a client scores
ScoreCatalog == <<A(NoCap)>>

ScorePlans ==
    {EmptyPlan,
     [EmptyPlan EXCEPT ![BREAKFAST] = <<Portion(1, 1)>>],
     [EmptyPlan EXCEPT ![BREAKFAST] = <<Portion(1, 1)>>,
                       ![DINNER] = <<Portion(1, 1)>>],
     [EmptyPlan EXCEPT ![BREAKFAST] = <<Portion(1, 2)>>,
                       ![DINNER] = <<Portion(1, 1)>>]}

ScoreGoals ==
    {GoalsFull(t, pm, fm, cm) :
         t \in {59900, 60000, 60001, 70000},
         pm \in {5000, 6000, 6001, 6004, 6005, 6100},
         fm \in {Unset, {1900}, {1996}, {2000}, {2500}},
         cm \in {Unset, {3000}, {4000}, {4005}, {4006}, {4100}}}

InitScore ==
    /\ items = ScoreCatalog
    /\ goals = ScenarioGoals
    /\ pc = "score"
    /\ seeded = FALSE
    /\ plan \in ScorePlans
    /\ err = "none"
    /\ result = <<>>
    /\ pair = <<>>
    /\ i2 = 0 /\ i3 = 0 /\ added2 = 0 /\ added3 = 0
    /\ roles0 = RolesOf(items)
    /\ stream = <<>>
    /\ rpos = 0
    /\ call = 1
    /\ prev = NoOutcome
    /\ last = NoCall
    /\ \E g \in ScoreGoals : scored = [goals |-> <<g>>, score |-> <<>>]

\* plan.score(goals)
ScoreCall ==
    /\ pc = "score"
    /\ pc' = "scored"
    /\ scored' = [scored EXCEPT !.score = <<score(items, plan, scored.goals[1])>>]
    /\ UNCHANGED <<items, goals, plan, err, result, pair, i2, i3, added2, added3,
                   roles0, seeded, stream, rpos, call, prev, last>>

\* the caller calls generate_day_plan again: same catalog objects, same
\* goals, same seed
SecondCall ==
    /\ Ended
    /\ seeded
    /\ call < MaxCalls
    /\ prev' = [pc |-> pc, err |-> err, plan |-> plan]
    /\ call' = call + 1
    /\ plan' = EmptyPlan
    /\ pc' = "base_breakfast"
    /\ err' = "none"
    /\ result' = <<>>
    /\ pair' = <<>>
    /\ i2' = 0 /\ i3' = 0 /\ added2' = 0 /\ added3' = 0
    /\ roles0' = RolesOf(items)
    /\ rpos' = 0
    /\ UNCHANGED <<items, goals, seeded, stream, last, scored>>

----------------------------------------------------------------------------
(* A client of the DayPlan API: plan.add(mt, Portion(it, sp)) and          *)
(* plan.meals[mt].add(Portion(it, sp)) on a DayPlan it constructed          *)

ApiCall(op, mt, it, sp, res) ==
    /\ pc = "api"
    /\ last.n < MaxApiOps
    /\ plan' = res.plan
    /\ last' = [op |-> op, mt |-> mt, item |-> it, portions |-> sp,
                err |-> res.err, n |-> last.n + 1]
    /\ UNCHANGED <<items, goals, pc, err, result, pair, i2, i3, added2, added3,
                   roles0, seeded, stream, rpos, call, prev, scored>>

ApiDayPlanAdd ==
    \E mt \in MealType, it \in 1..Len(items), sp \in 0..MaxQty :
        ApiCall("DayPlan.add", mt, it, sp, AddPortion(items, plan, mt, it, sp))

ApiMealAdd ==
    \E mt \in MealType, it \in 1..Len(items), sp \in 0..MaxQty :
        ApiCall("Meal.add", mt, it, sp,
                IF PortionRejected(items, it, sp)
                THEN [plan |-> plan, err |-> "InvalidPortion"]
                ELSE Meal_add(items, plan, mt, Portion(it, sp)))

----------------------------------------------------------------------------
(* Specifications *)

GenNext ==
    \/ BaseBreakfast
    \/ BaseDinner
    \/ PickLunch
    \/ AddLunchMain
    \/ AddLunchSide
    \/ Stage2Iter
    \/ Stage3Iter
    \/ Return

Next ==
    \/ GenNext
    \/ ApiDayPlanAdd
    \/ ApiMealAdd

Spec == Init /\ [][Next]_vars

NextSeeded ==
    \/ GenNext
    \/ SecondCall

SeededSpec == InitSeeded /\ [][NextSeeded]_vars

NextScore == ScoreCall

ScoreSpec == InitScore /\ [][NextScore]_vars

----------------------------------------------------------------------------
(* Properties *)

InGeneration == pc # "api"

\* the entries with max_portions set stay within it in plan p
WithinCaps(p) ==
    \A it \in 1..Len(items) :
        \A maxp \in items[it].max_portions : ItemTotal(p, it) <= maxp

\* C1: in every state of generate_day_plan and in the returned plan, an
\* entry whose max_portions is M has at most M portions over the three meals.
C1_DailyCap ==
    InGeneration =>
        /\ WithinCaps(plan)
        /\ \A k \in 1..Len(result) : WithinCaps(result[k])

\* a returned plan in which a capped entry is used up and repair has added
C1_Witness ==
    /\ pc = "done"
    /\ added2 + added3 > 0
    /\ \E it \in 1..Len(items) :
           /\ items[it].max_portions = {MaxCap}
           /\ ItemTotal(plan, it) = MaxCap

\* C2: once a repair stage has added a portion, the plan's calories are at
\* most calories_target + 100; every Stage 2 or Stage 3 addition leaves
\* them there.
C2_RepairCeiling ==
    (InGeneration /\ added2 + added3 > 0) =>
        Calories(items, plan) <= goals.calories_target + 100

\* both repair stages have added and the plan was returned
C2_Witness ==
    /\ pc = "done"
    /\ added2 > 0
    /\ added3 > 0
    /\ Calories(items, plan) > goals.calories_target

\* C3: a second call with the same catalog objects, goals and seed returns
\* the plan the first call returned.
C3_Deterministic ==
    (seeded /\ call > 1 /\ pc = "done" /\ prev.pc = "done") => plan = prev.plan

\* position of pc in the order in which generate_day_plan runs
Rank ==
    CASE pc = "base_breakfast" -> 0
      [] pc = "base_dinner" -> 1
      [] pc = "base_lunch" -> 2
      [] pc = "lunch_main" -> 3
      [] pc = "lunch_side" -> 4
      [] pc = "stage2" -> 5
      [] pc = "stage3" -> 6
      [] pc = "return" -> 7
      [] OTHER -> 8

\* the variant of a call: it grows with every step
StepsDone == Rank + i2 + i3

\* C4: Stage 2 runs at most 200 iterations and adds at most 200 portions,
\* Stage 3 at most 80 and 80, and every call ends: a call that has not ended
\* can take a step, and every step of a call increases a variant that never
\* exceeds 8 + 200 + 80.
C4_Terminates ==
    /\ [](InGeneration => /\ i2 <= 200 /\ added2 <= i2
                          /\ i3 <= 80 /\ added3 <= i3)
    /\ []((InGeneration /\ ~Ended) => ENABLED GenNext)
    /\ [][InGeneration => (StepsDone' > StepsDone /\ StepsDone' <= 288)]_vars

\* both loops ran out of iterations, each iteration adding a portion
C4_Witness ==
    /\ pc = "done"
    /\ i2 = 200 /\ added2 = 200
    /\ i3 = 80 /\ added3 = 80

\* every portion of every meal belongs to an entry eligible for the slot
AllEligible(p) ==
    \A mt \in MealType :
        \A k \in 1..Len(p[mt]) : mt \in items[p[mt][k].item].meal_types

\* the step is a client call that hands a constructed Portion to op
Called(op) ==
    /\ last'.n # last.n
    /\ last'.op = op
    /\ ~PortionRejected(items, last'.item, last'.portions)

\* C5: Meal.add of a portion whose entry does not list the meal's slot
\* fails with the eligibility error and changes no meal; every portion held
\* in a meal belongs to an entry eligible for that meal's slot.
C5_Eligibility ==
    /\ [][(Called("Meal.add") /\ last'.mt \notin items[last'.item].meal_types)
              => (last'.err = "Eligibility" /\ plan' = plan)]_vars
    /\ [](AllEligible(plan) /\ \A k \in 1..Len(result) : AllEligible(result[k]))

\* a Meal.add was rejected on a meal that holds a portion
C5_Witness ==
    /\ last.op = "Meal.add"
    /\ last.err = "Eligibility"
    /\ plan[last.mt] # <<>>

\* C6: DayPlan.add fails with the capacity error, changing no meal, whenever
\* the entry's total over the three meals plus the new quantity exceeds its
\* max_portions; once an entry with max_portions = 1 is in the plan, every
\* further DayPlan.add of it fails.
C6_CapacityGate ==
    /\ [][(/\ Called("DayPlan.add")
           /\ \E maxp \in items[last'.item].max_portions :
                  ItemTotal(plan, last'.item) + last'.portions > maxp)
              => (last'.err = "Capacity" /\ plan' = plan)]_vars
    /\ [][(/\ last'.n # last.n
           /\ last'.op = "DayPlan.add"
           /\ items[last'.item].max_portions = {1}
           /\ ItemTotal(plan, last'.item) >= 1)
              => (last'.err # "none" /\ plan' = plan)]_vars

\* an entry with max_portions = 1 is in the plan and a further DayPlan.add
\* of it to a slot it is eligible for was rejected
C6_Witness ==
    /\ last.op = "DayPlan.add"
    /\ last.err = "Capacity"
    /\ items[last.item].max_portions = {1}
    /\ last.mt \in items[last.item].meal_types
    /\ ItemTotal(plan, last.item) = 1

\* the pools of the three slots; meal_types never change
Pool(mt) == items_for_meal(items, mt)

\* the lunch pool holds exactly one entry and the other pools are not empty
OneLunchEntry ==
    /\ InGeneration
    /\ Len(Pool(LUNCH)) = 1
    /\ Pool(BREAKFAST) # <<>>
    /\ Pool(DINNER) # <<>>

\* the lunch meal of p starts with two portions of entry e
TwiceInLunch(p, e) ==
    /\ Len(p[LUNCH]) >= 2
    /\ p[LUNCH][1].item = e
    /\ p[LUNCH][2].item = e

\* C7 as stated: with exactly one lunch entry the call raises no error and
\* the returned lunch meal holds that entry twice, whatever its role and
\* max_portions.
C7_SingleLunchAlways ==
    (OneLunchEntry /\ Ended) =>
        /\ pc = "done"
        /\ TwiceInLunch(plan, Pool(LUNCH)[1])

\* C7 amended: with exactly one lunch entry, pick_lunch_pair returns it as
\* main and as side whatever its role; the only error the call can raise is
\* the capacity error of a base-fill addition, which it raises whenever that
\* entry's max_portions is 1 and never when no entry has max_portions set;
\* a returned plan holds only that entry in lunch, at least twice.
C7_SingleLunch ==
    OneLunchEntry =>
        LET e == Pool(LUNCH)[1]
        IN /\ pair # <<>> => pair = <<e, e>>
           /\ pc = "error" => err = "Capacity"
           /\ pc = "done" =>
                  /\ TwiceInLunch(plan, e)
                  /\ \A k \in 1..Len(plan[LUNCH]) : plan[LUNCH][k].item = e
           /\ (Ended /\ items[e].max_portions = {1}) => pc = "error"
           /\ (Ended /\ \A it \in 1..Len(items) : items[it].max_portions = NoCap)
                  => pc = "done"

\* a returned plan whose single lunch entry, with role SIDE and
\* max_portions 2, is there exactly twice
C7_Witness ==
    /\ OneLunchEntry
    /\ pc = "done"
    /\ LET e == Pool(LUNCH)[1]
       IN /\ roles0[e] = "SIDE"
          /\ items[e].max_portions = {2}
          /\ plan[LUNCH] = <<Portion(e, 1), Portion(e, 1)>>

\* the entries held by a meal
EntriesOf(ps) == {ps[k].item : k \in 1..Len(ps)}

\* C8: on the scenario catalog {A, B, C} with target 1200 and protein_min 60
\* the call returns, for every outcome of the draws, a plan whose lunch
\* holds exactly B and C, whose breakfast and dinner hold A portions only,
\* at least one each, with protein >= 60 unless the ceiling or the 200-step
\* bound was hit.
C8_Scenario ==
    (InGeneration /\ items = ScenarioCatalog /\ goals = ScenarioGoals) =>
        /\ pc # "error"
        /\ pc = "done" =>
               /\ EntriesOf(plan[LUNCH]) = {2, 3}
               /\ EntriesOf(plan[BREAKFAST]) = {1}
               /\ EntriesOf(plan[DINNER]) = {1}
               /\ \/ Protein(items, plan) >= 60
                  \/ Calories(items, plan) > 1200 + 100
                  \/ i2 = 200

\* the plan returned on the scenario
C8_Witness ==
    /\ items = ScenarioCatalog
    /\ goals = ScenarioGoals
    /\ pc = "done"
    /\ result = << [breakfast |-> <<Portion(1, 1)>>,
                    lunch |-> <<Portion(2, 1), Portion(3, 1)>>,
                    dinner |-> <<Portion(1, 1)>>] >>

SomePoolEmpty == \E mt \in MealType : Pool(mt) = <<>>

\* C9: when the pool of a slot is empty the call fails with the
\* data-unavailable error, returns no plan and leaves every lunch_role as
\* it was.
C9_DataUnavailable ==
    (InGeneration /\ SomePoolEmpty) =>
        /\ pc # "done"
        /\ result = <<>>
        /\ RolesOf(items) = roles0
        /\ pc = "error" => err = "NoItems"

\* C10: when pick_lunch_pair has returned two distinct entries, the main has
\* lunch_role MAIN and the side has lunch_role SIDE.
C10_DistinctRoles ==
    (InGeneration /\ pair # <<>> /\ pair[1] # pair[2]) =>
        /\ items[pair[1]].lunch_role = "MAIN"
        /\ items[pair[2]].lunch_role = "SIDE"

\* the call is past Stage 1
AfterStage1 == pc \in {"stage2", "stage3", "return", "done"}

\* C11: at every point after Stage 1 the entries present in the lunch meal
\* are exactly main and side of the pair selection; a repair step that adds
\* to lunch adds a portion of an entry the lunch meal already holds.
C11_NoNewLunchItem ==
    /\ [](AfterStage1 => EntriesOf(plan[LUNCH]) = {pair[1], pair[2]})
    /\ [][(AfterStage1 /\ plan'[LUNCH] # plan[LUNCH]) =>
              \E e \in EntriesOf(plan[LUNCH]) :
                  plan'[LUNCH] = Append(plan[LUNCH], Portion(e, 1))]_vars

\* a returned plan to whose lunch repair has added, on a catalog with a
\* lunch entry that the pair selection left out
C11_Witness ==
    /\ pc = "done"
    /\ Len(plan[LUNCH]) > 2
    /\ \E e \in 1..Len(items) :
           /\ LUNCH \in items[e].meal_types
           /\ ~InSeq(e, pair)

\* C12: every Goals value that reaches generate_day_plan has a non-negative
\* calories_target and protein_min, and a non-negative fat_max and carbs_min
\* when they are set, because the construction of any other value is rejected.
C12_GoalsValidated ==
    InGeneration =>
        /\ goals.calories_target >= 0
        /\ goals.protein_min >= 0
        /\ \A f \in goals.fat_max : f >= 0
        /\ \A c \in goals.carbs_min : c >= 0

\* every Portion held by plan p has a positive quantity within max_portions
ValidPortions(p) ==
    \A mt \in MealType :
        \A k \in 1..Len(p[mt]) :
            /\ p[mt][k].portions > 0
            /\ \A maxp \in items[p[mt][k].item].max_portions :
                   p[mt][k].portions <= maxp

\* C13: constructing a Portion fails with the invalid-argument error exactly
\* when the quantity is <= 0 or exceeds the entry's max_portions on its own;
\* every Portion that exists has a quantity q > 0 with q <= max_portions when
\* that is set.
C13_PortionConstruction ==
    /\ [][last'.n # last.n =>
              (last'.err = "InvalidPortion" <=>
                  \/ last'.portions <= 0
                  \/ \E maxp \in items[last'.item].max_portions :
                         last'.portions > maxp)]_vars
    /\ [](ValidPortions(plan) /\ \A k \in 1..Len(result) : ValidPortions(result[k]))

\* a Portion of quantity 2 is held by the plan and the construction of a
\* Portion with a positive quantity was rejected for the entry's max_portions
C13_Witness ==
    /\ last.err = "InvalidPortion"
    /\ last.portions > 0
    /\ \E mt \in MealType : \E k \in 1..Len(plan[mt]) : plan[mt][k].portions = 2

\* a score has been computed
Scored == scored.score # <<>>

Max0(x) == IF x > 0 THEN x ELSE 0

\* the sum |target - calories| + 3 * (protein shortfall)^2
\* + 2 * (fat excess)^2 + 1.5 * (carbs shortfall)^2 of the scored plan,
\* not rounded, in units of 1/20000
ExactSum ==
    LET g == scored.goals[1]
        cal == 100 * Calories(items, plan)
        protein == 100 * Protein(items, plan)
        fat == 100 * Nutrient(items, plan, "fat_per_portion")
        carbs == 100 * Nutrient(items, plan, "carbs_per_portion")
        dcal == IF g.calories_target >= cal THEN g.calories_target - cal
                ELSE cal - g.calories_target
        dp == Max0(g.protein_min - protein)
        df == IF g.fat_max = {} THEN 0
              ELSE Max0(fat - (CHOOSE f \in g.fat_max : TRUE))
        dc == IF g.carbs_min = {} THEN 0
              ELSE Max0((CHOOSE c \in g.carbs_min : TRUE) - carbs)
    IN 200 * dcal + 6 * dp * dp + 4 * df * df + 3 * dc * dc

\* calories equal the target and the protein, fat and carbs bounds are met
GoalsMet ==
    LET g == scored.goals[1]
    IN /\ 100 * Calories(items, plan) = g.calories_target
       /\ 100 * Protein(items, plan) >= g.protein_min
       /\ \A f \in g.fat_max : 100 * Nutrient(items, plan, "fat_per_portion") <= f
       /\ \A c \in g.carbs_min :
              100 * Nutrient(items, plan, "carbs_per_portion") >= c

\* C14 as stated: the score equals the sum, is never negative, and is 0
\* exactly when calories equal the target and every bound is met.
C14_ScoreExact ==
    Scored =>
        /\ 200 * scored.score[1] = ExactSum
        /\ scored.score[1] >= 0
        /\ scored.score[1] = 0 <=> GoalsMet

\* C14 amended: the score is the sum rounded to two decimals, so within
\* 0.005 of it; it is never negative, it is 0 when calories equal the target
\* and every bound is met, and it is strictly positive whenever the sum
\* exceeds 0.005.
C14_ScoreRounded ==
    Scored =>
        /\ 200 * scored.score[1] - ExactSum \in -100..100
        /\ scored.score[1] >= 0
        /\ GoalsMet => scored.score[1] = 0
        /\ ExactSum > 100 => scored.score[1] > 0

\* a plan 0.01 short of protein_min, with calories on target, scores 0
C14_Witness ==
    /\ Scored
    /\ scored.score[1] = 0
    /\ 100 * Protein(items, plan) = scored.goals[1].protein_min - 1
    /\ 100 * Calories(items, plan) = scored.goals[1].calories_target

\* the call is in a repair stage or about to return
InRepair == pc \in {"stage2", "stage3", "return"}

\* C15: once the base fill has succeeded the call returns a plan: an error
\* ends the call only before Stage 2, no step of Stage 2 or Stage 3 raises,
\* a call in repair can always go on, and what it returns is the plan as
\* the stages left it, whether or not the goals are met.
C15_AlwaysReturns ==
    /\ []((InGeneration /\ pc = "error") =>
              (i2 = 0 /\ i3 = 0 /\ Len(plan[LUNCH]) < 2 /\ result = <<>>))
    /\ [][InRepair => (pc' \in {"stage2", "stage3", "return", "done"}
                       /\ err' = "none")]_vars
    /\ [](InRepair => ENABLED GenNext)
    /\ [](pc = "done" => result = <<plan>>)

\* a plan returned after both repair loops gave up early, with protein
\* under protein_min and calories more than 100 under the target
C15_Witness ==
    /\ pc = "done"
    /\ i2 < 200
    /\ i3 < 80
    /\ Protein(items, plan) < goals.protein_min
    /\ Calories(items, plan) < goals.calories_target - 100

\* the number of portions held by plan p
NumPortions(p) == Len(p[BREAKFAST]) + Len(p[LUNCH]) + Len(p[DINNER])

\* the call is at one of the four plan.add calls of the base fill
AtBaseAdd == pc \in {"base_breakfast", "base_dinner", "lunch_main", "lunch_side"}

\* C16: a base-fill addition either puts its portion into the plan or ends
\* the call with the error of the rejection, leaving no plan: a call never
\* goes on without the portion, a plan that is returned holds the four
\* base portions, and a catalog of one entry with max_portions = 1, drawn
\* for breakfast and for dinner, ends in the capacity error.
C16_RejectionAborts ==
    /\ [][AtBaseAdd =>
              \/ pc' \notin {pc, "error"} /\ NumPortions(plan') = NumPortions(plan) + 1
              \/ /\ pc' = "error"
                 /\ err' \in {"NoItems", "Capacity", "Eligibility", "InvalidPortion"}
                 /\ plan' = plan
                 /\ result' = <<>>]_vars
    /\ []((InGeneration /\ pc = "error") => result = <<>>)
    /\ [](pc = "done" =>
              /\ Len(plan[BREAKFAST]) >= 1
              /\ Len(plan[DINNER]) >= 1
              /\ Len(plan[LUNCH]) >= 2)
    /\ []((Ended /\ Len(items) = 1 /\ items[1].max_portions = {1}
                  /\ items[1].meal_types = MealType)
              => (pc = "error" /\ err = "Capacity" /\ plan[DINNER] = <<>>))

\* the entry with max_portions = 1 that is in breakfast was drawn for dinner
\* too and the call ended with the capacity error
C16_Witness ==
    /\ pc = "error"
    /\ err = "Capacity"
    /\ result = <<>>
    /\ plan[DINNER] = <<>>
    /\ \E it \in 1..Len(items) :
           /\ items[it].max_portions = {1}
           /\ plan[BREAKFAST] = <<Portion(it, 1)>>

\* entry it is in the Stage 2 pool of slot mt and passes the protein > 5,
\* max_portions and calorie-ceiling filters
PassesNamedFilters(mt, it) ==
    /\ InSeq(it, RepairPool(items, plan, mt))
    /\ items[it].protein_per_portion > 5
    /\ ~CapExhausted(items, plan, it)
    /\ Calories(items, plan) + items[it].calories_per_portion
           <= goals.calories_target + 100

\* entry it can be added to slot mt by add_best_item
Stage2Candidate(mt, it) ==
    /\ PassesNamedFilters(mt, it)
    /\ items[it].calories_per_portion > 0

\* the step leaves Stage 2
Stage2Ends == pc = "stage2" /\ pc' = "stage3"

\* C17 as stated: when Stage 2 ends, protein >= protein_min, or calories
\* > target + 100, or no slot has a candidate passing the protein > 5, cap
\* and ceiling filters, or 200 iterations have each added a portion.
C17_Stage2ExitNamed ==
    [][Stage2Ends =>
          \/ Protein(items, plan) >= goals.protein_min
          \/ Calories(items, plan) > goals.calories_target + 100
          \/ \A mt \in MealType : \A it \in 1..Len(items) :
                 ~PassesNamedFilters(mt, it)
          \/ i2 = 200 /\ added2 = 200]_vars

\* C17 amended: when Stage 2 ends, protein >= protein_min, or calories
\* > target + 100, or no slot has a candidate passing the protein > 5, cap,
\* calories-per-step > 0 and ceiling filters, or 200 iterations have each
\* added a portion; the plan is as the last iteration left it.
C17_Stage2Exit ==
    [][Stage2Ends =>
          /\ plan' = plan
          /\ \/ Protein(items, plan) >= goals.protein_min
             \/ Calories(items, plan) > goals.calories_target + 100
             \/ \A mt \in MealType : \A it \in 1..Len(items) :
                    ~Stage2Candidate(mt, it)
             \/ i2 = 200 /\ added2 = 200]_vars

\* Stage 2 has ended on a plateau, after adding, although an entry without
\* calories passes the protein, cap and ceiling filters
C17_Witness ==
    /\ pc = "stage3"
    /\ i3 = 0
    /\ 0 < added2 /\ i2 < 200
    /\ Protein(items, plan) < goals.protein_min
    /\ Calories(items, plan) <= goals.calories_target + 100
    /\ \E mt \in MealType : \E it \in 1..Len(items) : PassesNamedFilters(mt, it)

\* slot a comes before slot b in the order dinner, breakfast, lunch
TriedBefore(a, b) ==
    \/ a = DINNER /\ b \in {BREAKFAST, LUNCH}
    \/ a = BREAKFAST /\ b = LUNCH

\* protein per calorie of entry a is at least that of entry b
RatioAtLeast(a, b) ==
    items[a].protein_per_portion * items[b].calories_per_portion
        >= items[b].protein_per_portion * items[a].calories_per_portion

\* C18: a Stage 2 iteration adds nothing or one portion of one step; the
\* portion goes to the first slot, in the order dinner, breakfast, lunch,
\* that has a candidate passing all filters; its entry is eligible for the
\* slot, has protein > 5 and calories > 0 per step, and has the greatest
\* protein-per-calorie ratio of the slot's candidates that pass the filters,
\* the earliest in catalog order among equals.  An iteration adds whenever
\* the loop goes on and some slot has such a candidate.
C18_Stage2Choice ==
    [][pc = "stage2" =>
          \/ /\ plan' = plan
             /\ pc' = "stage3"
             /\ \/ i2 = 200
                \/ Protein(items, plan) >= goals.protein_min
                \/ Calories(items, plan) > goals.calories_target + 100
                \/ \A mt \in MealType : \A it \in 1..Len(items) :
                       ~Stage2Candidate(mt, it)
          \/ \E mt \in MealType : \E it \in 1..Len(items) :
                 /\ plan' = [plan EXCEPT ![mt] = Append(@, Portion(it, 1))]
                 /\ mt \in items[it].meal_types
                 /\ items[it].protein_per_portion > 5
                 /\ items[it].calories_per_portion > 0
                 /\ Stage2Candidate(mt, it)
                 /\ \A m \in MealType : \A j \in 1..Len(items) :
                        TriedBefore(m, mt) => ~Stage2Candidate(m, j)
                 /\ \A j \in 1..Len(items) :
                        Stage2Candidate(mt, j) =>
                            /\ RatioAtLeast(it, j)
                            /\ RatioAtLeast(j, it) => it <= j]_vars

\* Stage 2 has added to dinner and then to lunch, and an entry without
\* calories passes the other filters of the dinner slot
C18_Witness ==
    /\ pc = "stage2"
    /\ Len(plan[DINNER]) > 1
    /\ Len(plan[LUNCH]) > 2
    /\ \E it \in 1..Len(items) :
           /\ PassesNamedFilters(DINNER, it)
           /\ items[it].calories_per_portion = 0

\* the (slot, entry) pairs Stage 3 chooses from: the entry is in the slot's
\* pool, for lunch in the lunch meal, and its cap is not exhausted
Stage3Candidates ==
    {c \in MealType \X (1..Len(items)) :
        /\ InSeq(c[2], RepairPool(items, plan, c[1]))
        /\ ~CapExhausted(items, plan, c[2])}

\* per-unit carbs - 2 * per-unit fat of candidate c
CarbMinusFat(c) == items[c[2]].carbs_per_portion - 2 * items[c[2]].fat_per_portion

\* candidate a comes before candidate b in the order breakfast, dinner,
\* lunch of the slots and catalog order within a slot
ListedBefore(a, b) ==
    LET rank(mt) == IF mt = BREAKFAST THEN 1 ELSE IF mt = DINNER THEN 2 ELSE 3
    IN \/ rank(a[1]) < rank(b[1])
       \/ rank(a[1]) = rank(b[1]) /\ a[2] < b[2]

\* c is the candidate Stage 3 chooses: the first of those of maximal score
Stage3Chosen(c) ==
    /\ c \in Stage3Candidates
    /\ \A d \in Stage3Candidates :
           /\ CarbMinusFat(c) >= CarbMinusFat(d)
           /\ (CarbMinusFat(c) = CarbMinusFat(d) /\ c # d) => ListedBefore(c, d)

\* one step of candidate c keeps the calories at or under target + 100
Stage3Fits(c) ==
    Calories(items, plan) + items[c[2]].calories_per_portion
        <= goals.calories_target + 100

\* Stage 3 goes into the choice of a candidate
Stage3Chooses ==
    /\ pc = "stage3"
    /\ i3 < 80
    /\ Calories(items, plan) < goals.calories_target - 100
    /\ Stage3Candidates # {}

\* C19: in a Stage 3 iteration that chooses, the candidate is the one of
\* maximal carbs - 2 * fat among all (slot, entry) pairs whose cap is not
\* exhausted, whatever its calories; one portion of it is added when that
\* keeps calories <= target + 100, and otherwise Stage 3 ends with nothing
\* added, even when another candidate fits.
C19_Stage3Choice ==
    [][Stage3Chooses =>
          \E c \in Stage3Candidates :
              /\ Stage3Chosen(c)
              /\ IF Stage3Fits(c)
                 THEN /\ plan' = [plan EXCEPT ![c[1]] = Append(@, Portion(c[2], 1))]
                      /\ pc' = "stage3"
                 ELSE /\ plan' = plan
                      /\ pc' = "return"]_vars

\* Stage 3 has ended, after adding, because the chosen candidate does not
\* fit, while another candidate fits
C19_Witness ==
    /\ pc = "return"
    /\ 0 < added3 /\ added3 < i3 /\ i3 < 80
    /\ Calories(items, plan) < goals.calories_target - 100
    /\ \E c \in Stage3Candidates : Stage3Chosen(c) /\ ~Stage3Fits(c)
    /\ \E d \in Stage3Candidates : Stage3Fits(d)

\* calories of the plan are within 100 of the target
NearTarget ==
    /\ Calories(items, plan) >= goals.calories_target - 100
    /\ Calories(items, plan) <= goals.calories_target + 100

\* C20: Stage 3 adds a portion only in a state whose calories are strictly
\* below target - 100; at target - 100 or above an iteration adds nothing
\* and ends the stage; once a Stage 3 addition has brought the calories to
\* within 100 of the target, the plan never changes again.
C20_Stage3OnlyBelow ==
    /\ [][(pc = "stage3" /\ plan' # plan) =>
              Calories(items, plan) < goals.calories_target - 100]_vars
    /\ [][(pc = "stage3" /\ Calories(items, plan) >= goals.calories_target - 100)
              => (plan' = plan /\ pc' = "return")]_vars
    /\ [][(InGeneration /\ added3 > 0 /\ NearTarget) => plan' = plan]_vars

\* a plan returned after a Stage 3 addition brought it within 100 of the
\* target, with a candidate that would still fit under target + 100
C20_Witness ==
    /\ pc = "done"
    /\ added3 > 0
    /\ NearTarget
    /\ \E c \in Stage3Candidates : Stage3Fits(c)

\* plan q is plan p with one new portion at the end of one meal
OneAppended(p, q) ==
    \E mt \in MealType :
        /\ Len(q[mt]) = Len(p[mt]) + 1
        /\ SubSeq(q[mt], 1, Len(p[mt])) = p[mt]
        /\ \A m \in MealType \ {mt} : q[m] = p[m]

\* the stage pc is in: 1 base fill, 2 protein repair, 3 calorie repair,
\* 4 the return, 5 the end of the call
StageOf(at) ==
    CASE at \in {"base_breakfast", "base_dinner", "base_lunch",
                 "lunch_main", "lunch_side"} -> 1
      [] at = "stage2" -> 2
      [] at = "stage3" -> 3
      [] at = "return" -> 4
      [] OTHER -> 5

\* C21: during generate_day_plan every change of the plan appends one new
\* portion to the end of one meal and leaves every portion already there in
\* place and as it was; the base fill alone adds in stage 1, Stage 2 alone
\* in stage 2, Stage 3 alone in stage 3, the stages follow each other in
\* that order without return, and the plan that is returned is never
\* changed.
C21_PlanOnlyGrows ==
    /\ [][InGeneration =>
              /\ plan' = plan \/ OneAppended(plan, plan')
              /\ StageOf(pc') >= StageOf(pc)
              /\ StageOf(pc') > StageOf(pc) => plan' = plan \/ pc = "lunch_side"
              /\ StageOf(pc) >= 4 => plan' = plan
              /\ added2' # added2 => pc = "stage2"
              /\ added3' # added3 => pc = "stage3"]_vars
    /\ [](AfterStage1 => NumPortions(plan) = 4 + added2 + added3)

\* a returned plan in which both repair stages have added and a meal holds
\* two portions of one entry next to each other
C21_Witness ==
    /\ pc = "done"
    /\ added2 > 0
    /\ added3 > 0
    /\ \E mt \in MealType : \E k \in 1..(Len(plan[mt]) - 1) :
           plan[mt][k].item = plan[mt][k + 1].item

\* the catalog with every lunch_role blanked
WithoutRoles(its) == [i \in 1..Len(its) |-> [its[i] EXCEPT !.lunch_role = "None"]]

\* C22: no step of generate_day_plan changes a field of a catalog entry
\* other than lunch_role; at every point of a call the entries whose
\* lunch_role differs from what it was when the call started are among the
\* main and side that pair selection returned.
C22_OnlyPairRoles ==
    /\ [][InGeneration => WithoutRoles(items') = WithoutRoles(items)]_vars
    /\ [](InGeneration =>
              \A i \in 1..Len(items) :
                  items[i].lunch_role # roles0[i] =>
                      (pair # <<>> /\ i \in {pair[1], pair[2]}))

\* a returned plan of a call that wrote the role of main and side and left
\* a lunch entry outside the pair without role
C22_Witness ==
    /\ pc = "done"
    /\ items[pair[1]].lunch_role # roles0[pair[1]]
    /\ items[pair[2]].lunch_role # roles0[pair[2]]
    /\ \E i \in 1..Len(items) :
           /\ LUNCH \in items[i].meal_types
           /\ ~InSeq(i, pair)
           /\ items[i].lunch_role = "None"

\* no lunch-eligible entry had a role when the call started
NoLunchRole0 ==
    \A i \in 1..Len(items) : LUNCH \in items[i].meal_types => roles0[i] = "None"

\* the entry rng.sample drew first: the third draw of the call, after those
\* of breakfast and dinner
FirstDrawn == Pool(LUNCH)[(stream[3] % Len(Pool(LUNCH))) + 1]

\* C23: when no lunch-eligible entry has a role and the lunch pool holds at
\* least two entries, pair selection returns two distinct entries of the
\* pool, the one of more calories as main and on equal calories the first
\* drawn, and the main has lunch_role MAIN and the side lunch_role SIDE.
C23_InferByCalories ==
    (seeded /\ NoLunchRole0 /\ Len(Pool(LUNCH)) >= 2 /\ pair # <<>>) =>
        /\ pair[1] # pair[2]
        /\ InSeq(pair[1], Pool(LUNCH))
        /\ InSeq(pair[2], Pool(LUNCH))
        /\ items[pair[1]].calories_per_portion >= items[pair[2]].calories_per_portion
        /\ items[pair[1]].calories_per_portion = items[pair[2]].calories_per_portion
               => pair[1] = FirstDrawn
        /\ items[pair[1]].lunch_role = "MAIN"
        /\ items[pair[2]].lunch_role = "SIDE"

\* of two entries of equal calories the later of the catalog, drawn first,
\* was returned as main, and the plan was returned
C23_Witness ==
    /\ seeded
    /\ NoLunchRole0
    /\ pc = "done"
    /\ pair[1] > pair[2]
    /\ items[pair[1]].calories_per_portion = items[pair[2]].calories_per_portion
    /\ items[pair[1]].lunch_role = "MAIN"

\* the portions of plan p that the base fill put there: the first of
\* breakfast, the first of dinner and the first two of lunch
BaseFillOf(p) ==
    [mt \in MealType |->
        SubSeq(p[mt], 1, IF mt = LUNCH THEN 2 ELSE 1)]

\* C24: when the calories of the base fill exceed target + 100, Stage 2 and
\* Stage 3 add nothing and the plan that is returned is the base fill: one
\* breakfast portion, one dinner portion and the two lunch portions.
C24_BaseFillOverCeiling ==
    (AfterStage1
     /\ Calories(items, BaseFillOf(plan)) > goals.calories_target + 100) =>
        /\ plan = BaseFillOf(plan)
        /\ Len(plan[BREAKFAST]) = 1 /\ Len(plan[DINNER]) = 1 /\ Len(plan[LUNCH]) = 2
        /\ added2 = 0 /\ added3 = 0
        /\ pc = "done" => result = <<plan>>

\* a base fill above the ceiling and short of protein was returned as it was
C24_Witness ==
    /\ pc = "done"
    /\ Calories(items, plan) > goals.calories_target + 100
    /\ Protein(items, plan) < goals.protein_min
    /\ \E mt \in MealType : \E it \in 1..Len(items) :
           /\ InSeq(it, RepairPool(items, plan, mt))
           /\ items[it].protein_per_portion > 5
           /\ ~CapExhausted(items, plan, it)
    /\ result = <<BaseFillOf(plan)>>

\* when the call started the lunch pool held an entry with role MAIN and an
\* entry with role SIDE
MainAndSide0 ==
    /\ \E i \in 1..Len(items) : LUNCH \in items[i].meal_types /\ roles0[i] = "MAIN"
    /\ \E i \in 1..Len(items) : LUNCH \in items[i].meal_types /\ roles0[i] = "SIDE"

\* C25: when the lunch pool holds an entry with role MAIN and one with role
\* SIDE, a call leaves every lunch_role as it was, its lunch main is one of
\* the MAIN entries and its lunch side one of the SIDE entries, and the next
\* call starts from the catalog the call started from.
C25_RolesKept ==
    /\ []((seeded /\ MainAndSide0) =>
              /\ RolesOf(items) = roles0
              /\ pair # <<>> =>
                     /\ LUNCH \in items[pair[1]].meal_types
                     /\ roles0[pair[1]] = "MAIN"
                     /\ LUNCH \in items[pair[2]].meal_types
                     /\ roles0[pair[2]] = "SIDE")
    /\ [][(seeded /\ MainAndSide0 /\ call' # call) =>
              (items' = items /\ roles0' = roles0)]_vars

\* the second call on a catalog with two SIDE entries and a MAIN entry has
\* returned, the roles being those the first call started with
C25_Witness ==
    /\ seeded
    /\ call = 2
    /\ pc = "done"
    /\ MainAndSide0
    /\ Len(items) = 4
    /\ RolesOf(items) = <<"None", "MAIN", "SIDE", "SIDE">>

\* no entry of the catalog has negative protein
NonNegativeProtein == \A i \in 1..Len(items) : items[i].protein_per_portion >= 0

\* the plans that p can have been when Stage 3 started, Stage 3 having
\* appended n portions to p: n portions are taken from the ends of the meals
\* and the base fill stays
Stage3Starts(p, n) ==
    { [mt \in MealType |-> SubSeq(p[mt], 1, Len(p[mt]) - k[mt])] :
        k \in { f \in [MealType -> 0..n] :
                  /\ f[BREAKFAST] + f[LUNCH] + f[DINNER] = n
                  /\ \A mt \in MealType :
                         Len(p[mt]) - f[mt] >= Len(BaseFillOf(p)[mt]) } }

\* C26: on a catalog without negative protein the protein of the plan never
\* decreases during a generation, so protein that has reached protein_min
\* when Stage 2 ends is still at least protein_min in every later step of
\* Stage 3 and in the returned plan.
C26_ProteinKept ==
    /\ [][(InGeneration /\ NonNegativeProtein) =>
              Protein(items, plan') >= Protein(items, plan)]_vars
    /\ [][(/\ NonNegativeProtein
           /\ pc \in {"stage3", "return"}
           /\ Protein(items, plan) >= goals.protein_min) =>
              /\ pc' \in {"stage3", "return", "done"}
              /\ Protein(items, plan') >= goals.protein_min]_vars
    /\ []((/\ NonNegativeProtein
           /\ pc \in {"stage3", "return", "done"}
           /\ \E q \in Stage3Starts(plan, added3) :
                  Protein(items, q) >= goals.protein_min) =>
              /\ Protein(items, plan) >= goals.protein_min
              /\ pc = "done" => result = <<plan>>)

\* a plan is returned to which Stage 3 added portions, and whichever
\* portions those were, a positive protein_min was met before them
C26_Witness ==
    /\ pc = "done"
    /\ NonNegativeProtein
    /\ goals.protein_min > 0
    /\ added3 > 0
    /\ \A q \in Stage3Starts(plan, added3) :
           Protein(items, q) >= goals.protein_min
    /\ \E i \in 1..Len(items) : items[i].protein_per_portion > 0
    /\ result = <<plan>>

====
